---------------------------- MODULE Spec2Model ----------------------------
(***************************************************************************)
(* Model of the treed distributed-lag mixture model sampler of dlmtree:    *)
(* the utilities of src/src/Fncs.cpp and the tree-pair sampler of          *)
(* src/src/tdlmm_Cpp.cpp.                                                  *)
(*                                                                         *)
(* Real numbers are modelled by integers on a fixed grid: a probability    *)
(* is an integer weight and 1.0 is the weight One.  C++ indices are kept   *)
(* 0-based; a TLA+ sequence s holds the C++ element s[i] at s[i + 1].      *)
(***************************************************************************)
EXTENDS Integers, Sequences, FiniteSets, TLC

\* ------------------------------------------------------------------ bounds
MaxLen == 3          \* longest vector handed to a utility function
MaxVal == 3          \* largest integer held by a sorted vector
Grid == 2            \* grid points of a uniform draw per unit of weight
MaxPX == 3           \* most time points of an exposure (pX)
MaxTrees == 2        \* most tree pairs (nTrees)
MaxExp == 2          \* exposures (nExp)
MaxSweeps == 2       \* most sweeps of a run (iter + burn)
MaxFit == 1          \* largest fit of a tree pair, in outcome grid points
MaxGarbage == 1      \* values an uninitialized double may be read as
MaxIter == 3         \* most recorded-phase sweeps (iter) of a recording run
MaxBurn == 1         \* most burn-in sweeps (burn) of a recording run
MaxThin == 2         \* largest thinning interval (thin)
MaxWarmup == 4       \* most burn-in sweeps of a run over the warm-up
MaxOmegaInv == 4     \* largest 1 / Omega of the first Polya-Gamma draw
RScale == 1          \* grid points of an outcome value per half unit

VARIABLES
  fnArgs,    \* the utility function under test and its arguments
  fnOut,     \* its result
  cfg,       \* the `model` list handed to tdlmm_Cpp
  pc,        \* position of tdlmm_Cpp
  t,         \* index of the tree pair being updated
  trees1,    \* trees1[t]: first tree of each pair
  trees2,    \* trees2[t]: second tree of each pair
  ctr,       \* the tdlmCtr control object
  loc,       \* locals of the running tdlmmTreeMCMC call
  dgn,       \* the tdlmLog diagnostics object
  mode,      \* "run", or "record" / "replay" of a run and its rerun
  stream,    \* the random-number values recorded for the rerun
  firstLog   \* the diagnostics of the recorded run

fnVars == <<fnArgs, fnOut>>
runVars == <<cfg, pc, t, trees1, trees2, ctr, loc, dgn>>
replayVars == <<mode, stream, firstLog>>
vars == <<fnArgs, fnOut, cfg, pc, t, trees1, trees2, ctr, loc, dgn,
          mode, stream, firstLog>>

\* ------------------------------------------------------- Fncs.cpp utilities
NoCall == [f |-> "none"]

\* The sequence s from its C++ index i (0-based) to its end.
RECURSIVE Tail0(_, _)
Tail0(s, i) == IF i >= Len(s) THEN <<>> ELSE <<s[i + 1]>> \o Tail0(s, i + 1)

\* The tail copied when newVec is exhausted, with the copy left out.
IadTailDropped(origVec, i) == <<>>

\* diffVec.insert(diffVec.end(), origVec.begin() + i, origVec.end())
IadTail(origVec, i) == Tail0(origVec, i)

\* The do-while loop of intersectAndDiff, from the loop head with i < size.
RECURSIVE IadLoop(_, _, _, _, _, _)
IadLoop(origVec, newVec, i, j, intVec, diffVec) ==
  IF origVec[i + 1] < newVec[j + 1]
  THEN \* difference; `continue` jumps to the loop condition
       IF i + 1 < Len(origVec)
       THEN IadLoop(origVec, newVec, i + 1, j, intVec,
                    Append(diffVec, origVec[i + 1]))
       ELSE <<intVec, Append(diffVec, origVec[i + 1])>>
  ELSE LET eq == origVec[i + 1] = newVec[j + 1]
           i2 == IF eq THEN i + 1 ELSE i
           j2 == j + 1
           int2 == IF eq THEN Append(intVec, origVec[i + 1]) ELSE intVec
       IN IF j2 = Len(newVec)
          THEN <<int2, diffVec \o IadTail(origVec, i2)>>
          ELSE IF i2 < Len(origVec)
               THEN IadLoop(origVec, newVec, i2, j2, int2, diffVec)
               ELSE <<int2, diffVec>>

\* intersectAndDiff(origVec, newVec): <<intersection, difference>>.
intersectAndDiff(origVec, newVec) ==
  IF Len(origVec) = 0 THEN <<origVec, origVec>>
  ELSE IF Len(newVec) = 0 THEN <<newVec, origVec>>
  ELSE IadLoop(origVec, newVec, 0, 0, <<>>, <<>>)

\* R::runif(0, totP): the grid points strictly inside (0, totP).
Runif(totP) == 1..(totP - 1)

\* The loop test of sampleInt with the comparison weakened to <=.
SampleIntTestLe(sum, u) == sum <= u

\* while (sum < u)
SampleIntTest(sum, u) == sum < u

\* The outcome of a scan that has read probs at an index >= size.  The
\* read is undefined behaviour: the scan goes on through the memory behind
\* the vector until what it reads adds up to u, and returns an index from
\* the size on, however far that is, or faults on a read and returns
\* nothing.  PastEnd stands for every one of these outcomes; it holds no
\* index.
PastEnd == [oob |-> TRUE]

\* The scan of sampleInt from index i with running sum `sum`.  probs[i] is
\* read without a bound check.
RECURSIVE sampleIntScan(_, _, _, _)
sampleIntScan(probs, u, i, sum) ==
  IF SampleIntTest(sum, u)
  THEN IF i + 1 >= Len(probs)
       THEN PastEnd
       ELSE sampleIntScan(probs, u, i + 1, sum + probs[i + 2])
  ELSE [idx |-> i, oob |-> FALSE]

\* The outcomes of sampleInt(probs, totP) for the uniform draw u: the index
\* the scan stops at, or PastEnd.
sampleInt(probs, u) == {sampleIntScan(probs, u, 0, probs[1])}

\* ------------------------------------------------ trees (Node, NodeStruct)
\* A tree is [nodes, xexp, tempV, prop].  nodes maps a node's heap index
\* (root 1, children 2i and 2i + 1) to its DLNMStruct [tmin, tmax, tsplit];
\* tsplit = 0 marks a terminal node.  xexp is the exposure whose basis the
\* node values hold, tempV the cached matrix of the root's node values,
\* prop the staged structure.
NoProp == [staged |-> FALSE]
NoTempV == <<>>      \* a matrix with rows() == 0

\* ns = new DLNMStruct(0, ctr->nSplits + 1, 1, int(ctr->pX), ...)
RootStruct(pX) == [tmin |-> 1, tmax |-> pX, tsplit |-> 0]

\* trees1.push_back(new Node(0, 1)); nodestruct = ns->clone();
\* Exp[m]->updateNodeVals(tree)
NewRootTree(m, pX) ==
  [nodes |-> (1 :> RootStruct(pX)), xexp |-> m, tempV |-> NoTempV,
   prop |-> NoProp]

\* Heap indices of the terminal nodes below node i, left to right.
RECURSIVE TermIdx(_, _)
TermIdx(nodes, i) ==
  IF nodes[i].tsplit = 0 THEN <<i>>
  ELSE TermIdx(nodes, 2 * i) \o TermIdx(nodes, 2 * i + 1)

\* Heap indices of the internal nodes below node i.
RECURSIVE InternalIdx(_, _)
InternalIdx(nodes, i) ==
  IF nodes[i].tsplit = 0 THEN <<>>
  ELSE <<i>> \o InternalIdx(nodes, 2 * i) \o InternalIdx(nodes, 2 * i + 1)

\* Internal nodes whose two children are terminal.
RECURSIVE Gen2Idx(_, _)
Gen2Idx(nodes, i) ==
  IF nodes[i].tsplit = 0 THEN <<>>
  ELSE IF nodes[2 * i].tsplit = 0 /\ nodes[2 * i + 1].tsplit = 0
       THEN <<i>>
       ELSE Gen2Idx(nodes, 2 * i) \o Gen2Idx(nodes, 2 * i + 1)

\* The design column of a terminal node: exposure and time window.
Column(e, ns) == [e |-> e, tmin |-> ns.tmin, tmax |-> ns.tmax]

\* tree->listTerminal(), and tree->listTerminal(1) following the staged
\* structure.
TermCols(nodes, e) ==
  LET ix == TermIdx(nodes, 1)
  IN [k \in 1..Len(ix) |-> Column(e, nodes[ix[k]])]

listTerminal(tree) == TermCols(tree.nodes, tree.xexp)

listTerminalProposed(tree) ==
  IF tree.prop.staged THEN TermCols(tree.prop.nodes, tree.xexp)
  ELSE listTerminal(tree)

\* Node::grow: node i gets split s and two terminal children.
GrowNodes(nodes, i, s) ==
  LET ns == nodes[i]
  IN [k \in DOMAIN nodes \cup {2 * i, 2 * i + 1} |->
        IF k = i THEN [ns EXCEPT !.tsplit = s]
        ELSE IF k = 2 * i THEN [tmin |-> ns.tmin, tmax |-> s, tsplit |-> 0]
        ELSE IF k = 2 * i + 1
             THEN [tmin |-> s + 1, tmax |-> ns.tmax, tsplit |-> 0]
        ELSE nodes[k]]

\* Node::prune: node i loses its two terminal children.
PruneNodes(nodes, i) ==
  [k \in DOMAIN nodes \ {2 * i, 2 * i + 1} |->
     IF k = i THEN [nodes[k] EXCEPT !.tsplit = 0] ELSE nodes[k]]

\* Node::change: node i gets split s; the windows below follow from the
\* splits, which keep their values (the shape of the subtree is kept).
RECURSIVE ChangedWindow(_, _, _, _)
ChangedWindow(nodes, i, s, k) ==
  IF k = 1 THEN [tmin |-> nodes[1].tmin, tmax |-> nodes[1].tmax]
  ELSE LET p == k \div 2
           w == ChangedWindow(nodes, i, s, p)
           sp == IF p = i THEN s ELSE nodes[p].tsplit
       IN IF k = 2 * p THEN [tmin |-> w.tmin, tmax |-> sp]
          ELSE [tmin |-> sp + 1, tmax |-> w.tmax]

ChangeNodes(nodes, i, s) ==
  [k \in DOMAIN nodes |->
     LET w == ChangedWindow(nodes, i, s, k)
     IN [tmin |-> w.tmin, tmax |-> w.tmax,
         tsplit |-> IF k = i THEN s ELSE nodes[k].tsplit]]

\* The (node, split) draws tdlmProposeTree can make for move `step`:
\* no = floor(runif(0, size)) and the split drawn by the split rule.
\* s = 0 stands for "no split drawn".
ProposalDraws(tree, step) ==
  LET nodes == tree.nodes
      cand == IF step = 0 THEN TermIdx(nodes, 1)
              ELSE IF step = 1 THEN Gen2Idx(nodes, 1)
              ELSE InternalIdx(nodes, 1)
      range(i) == IF step = 1 THEN {}
                  ELSE nodes[i].tmin .. (nodes[i].tmax - 1)
  IN IF Len(cand) = 0 THEN {[no |-> 0, s |-> 0]}
     ELSE UNION {
       IF range(cand[k + 1]) = {} THEN {[no |-> k, s |-> 0]}
       ELSE {[no |-> k, s |-> x] : x \in range(cand[k + 1])}
       : k \in 0..(Len(cand) - 1)}

\* tdlmProposeTree(tree, Exp[m], ctr, step): the tree with the move staged,
\* or unchanged when the move is not feasible.  The new terminal nodes get
\* their values from Exp[m], the exposure of the tree.  A change redraws
\* the split of the picked node within the valid range of that node's split
\* rule, tmin .. tmax - 1, and keeps the shape of the subtree.
tdlmProposeTree(tree, step, d) ==
  LET nodes == tree.nodes
      cand == IF step = 0 THEN TermIdx(nodes, 1)
              ELSE IF step = 1 THEN Gen2Idx(nodes, 1)
              ELSE InternalIdx(nodes, 1)
      i == cand[d.no + 1]
      staged(n) == [tree EXCEPT !.prop = [staged |-> TRUE, nodes |-> n]]
  IN IF Len(cand) = 0 THEN tree
     ELSE IF step = 0
          THEN IF d.s = 0 THEN tree ELSE staged(GrowNodes(nodes, i, d.s))
     ELSE IF step = 1 THEN staged(PruneNodes(nodes, i))
     ELSE IF d.s # 0 THEN staged(ChangeNodes(nodes, i, d.s))
          ELSE tree

\* The nodes tdlmProposeTree picks from for move `step`; it draws from the
\* random stream when there is one to pick.
MoveCandidates(tree, step) ==
  IF step = 0 THEN TermIdx(tree.nodes, 1)
  ELSE IF step = 1 THEN Gen2Idx(tree.nodes, 1)
  ELSE InternalIdx(tree.nodes, 1)

\* tree->isProposed()
isProposed(tree) == tree.prop.staged

\* Node::accept: the staged structure becomes the tree; the cached matrix
\* is dropped.
accept(tree) ==
  IF tree.prop.staged
  THEN [tree EXCEPT !.nodes = tree.prop.nodes, !.prop = NoProp,
                    !.tempV = NoTempV]
  ELSE tree

\* Node::reject: the staged structure is discarded.
reject(tree) == [tree EXCEPT !.prop = NoProp]

\* new Node(*tree); setUpdate(1); Exp[newExp]->updateNodeVals(nt) for every
\* terminal node nt: the candidate of a switch-exposure move.
SwitchCandidate(tree, newExp) == [tree EXCEPT !.xexp = newExp]

\* tree->replaceNodeVals(newTree)
replaceNodeVals(tree, newTree) == [tree EXCEPT !.xexp = newTree.xexp]

\* ------------------------------------------------------------ configuration
One == 4 * Grid      \* the weight of probability 1.0
Exposures == 0..(MaxExp - 1)
Garbage == 0..MaxGarbage

\* model["stepProbTDLM"]: grow, prune, change, switch-exposure
StepProb == <<Grid, Grid, Grid, Grid>>

\* model["expProb"]: the initial exposure-selection probabilities
InitExpProb == [e \in 1..MaxExp |-> Grid]

\* The vector a Dirichlet draw is represented by.
DrawnExpProb == [e \in 1..MaxExp |-> IF e = 1 THEN 2 * Grid ELSE Grid]

RECURSIVE SumSeq(_)
SumSeq(s) == IF s = <<>> THEN 0 ELSE Head(s) + SumSeq(Tail(s))

\* Variance scales are positive reals.  1 is the initial value (setOnes);
\* a draw of rHalfCauchyFC is represented by one value per target, distinct
\* from 1 and from the draws of every other target.
NuDrawn == 2
TauDrawn(tt) == 10 + tt
MuExpDrawn(e) == 20 + e
MuMixDrawn(j, i) == 30 + MaxExp * j + i

\* ------------------------------------------------------------------ mixMHR
\* The column writes of mixMHR with the interaction block indexed by
\* the terminal count of tree 1.
ColWritesStride1(pX1, pX2, interaction) ==
  [a \in 1..pX1 |-> [k |-> a - 1, i |-> a - 1, j |-> -1]]
  \o [c \in 1..pX2 |-> [k |-> pX1 + c - 1, i |-> -1, j |-> c - 1]]
  \o (IF interaction
      THEN [q \in 1..(pX1 * pX2) |->
              LET i == (q - 1) \div pX2
                  j == (q - 1) % pX2
              IN [k |-> pX1 + pX2 + i * pX1 + j, i |-> i, j |-> j]]
      ELSE <<>>)

\* The writes out.Xd.col(k) = ... of mixMHR in the order of its loops:
\* k = i for terminal node i of tree 1, k = pX1 + j for terminal node j of
\* tree 2, k = pX1 + pX2 + i * pX2 + j for the product of the two.
ColWrites(pX1, pX2, interaction) ==
  [a \in 1..pX1 |-> [k |-> a - 1, i |-> a - 1, j |-> -1]]
  \o [c \in 1..pX2 |-> [k |-> pX1 + c - 1, i |-> -1, j |-> c - 1]]
  \o (IF interaction
      THEN [q \in 1..(pX1 * pX2) |->
              LET i == (q - 1) \div pX2
                  j == (q - 1) % pX2
              IN [k |-> pX1 + pX2 + i * pX2 + j, i |-> i, j |-> j]]
      ELSE <<>>)

\* The column a write stores: the terminal node of one tree, or the pair
\* of terminal nodes whose columns are multiplied.
ColumnOf(w, nodes1, nodes2) ==
  IF w.j = -1 THEN <<nodes1[w.i + 1]>>
  ELSE IF w.i = -1 THEN <<nodes2[w.j + 1]>>
  ELSE <<nodes1[w.i + 1], nodes2[w.j + 1]>>

\* The columns of the local design out.Xd: resized to pXd columns, set to
\* zero (the empty column), then written by the loops over the terminal
\* nodes of tree 1, of tree 2 and, with an interaction, of their pairs.
DesignXd(nodes1, nodes2, interaction) ==
  LET pX1 == Len(nodes1)
      pX2 == Len(nodes2)
      pXd == pX1 + pX2 + (IF interaction THEN pX1 * pX2 ELSE 0)
      W == ColWrites(pX1, pX2, interaction)
  IN [k1 \in 1..pXd |->
        LET hits == {n \in 1..Len(W) : W[n].k = k1 - 1}
        IN IF hits = {} THEN <<>>
           ELSE ColumnOf(W[CHOOSE n \in hits : \A m \in hits : m <= n],
                         nodes1, nodes2)]

\* ThetaDraw.head(n), ThetaDraw.segment(start, n), ThetaDraw.tail(n)
HeadOf(v, n) == SubSeq(v, 1, n)
SegmentOf(v, start, n) == SubSeq(v, start + 1, start + n)
TailOf(v, n) == SubSeq(v, Len(v) - n + 1, Len(v))

\* The drawn coefficient vector, each entry named by its column.
ThetaDraw(pXd) == [k1 \in 1..pXd |-> k1 - 1]

\* Xd' Xd - ZtX' Vg ZtX is a function of the design columns alone (Z and Vg
\* are fixed for continuous outcomes): it is represented by the design.
Gram(Xd) == Xd

\* The columns of the two trees are linearly dependent when both trees use
\* one exposure: each tree's columns then sum to the same vector.
Collinear(nodes1, nodes2) ==
  \E a \in 1..Len(nodes1), c \in 1..Len(nodes2) : nodes1[a].e = nodes2[c].e

\* Outcomes of the Cholesky factorization tempV.llt(): it can fail
\* (info() != Success) when the columns are collinear and the prior
\* precision added to the diagonal is lost in rounding.
LltOutcomes(nodes1, nodes2) ==
  IF Collinear(nodes1, nodes2) THEN {TRUE, FALSE} ELSE {TRUE}

\* The matrix tempV that mixMHR factorizes: computed from the design for
\* binomial and ZINB outcomes and for a new tree, else read from the cache.
MhrUsedV(family, tree, newTree, Xd) ==
  IF family # "gaussian" \/ newTree THEN Gram(Xd) ELSE tree.tempV

\* mixMHR(nodes1, nodes2, ctr, ZtR, treeVar, m1Var, m2Var, mixVar, tree,
\* newTree); lltOk is the outcome of the factorization.
mixMHR(nodes1, nodes2, family, mixVar, tree, newTree, lltOk) ==
  LET Xd == DesignXd(nodes1, nodes2, mixVar # 0)
  IN [Xd |-> Xd,
      tempV |-> IF family = "gaussian" /\ newTree THEN Gram(Xd) ELSE NoTempV,
      usedV |-> MhrUsedV(family, tree, newTree, Xd),
      cached |-> family = "gaussian" /\ ~newTree,
      drawAll |-> ThetaDraw(Len(Xd)),
      draw1 |-> HeadOf(ThetaDraw(Len(Xd)), Len(nodes1)),
      draw2 |-> SegmentOf(ThetaDraw(Len(Xd)), Len(nodes1), Len(nodes2)),
      drawMix |-> IF mixVar # 0
                  THEN TailOf(ThetaDraw(Len(Xd)),
                              Len(Xd) - Len(nodes1) - Len(nodes2))
                  ELSE <<>>,
      nTerm1 |-> Len(nodes1),
      nTerm2 |-> Len(nodes2),
      pXd |-> Len(Xd),
      lltOk |-> lltOk]

\* --------------------------------------------------- the random stream
\* A run in mode "record" appends the random values of each step to
\* `stream`; its rerun in mode "replay" is given the same values.
Replayed(d) == mode = "replay" => (stream # <<>> /\ Head(stream) = d)

Consume(d) ==
  stream' = IF mode = "record" THEN Append(stream, d)
            ELSE IF mode = "replay" THEN Tail(stream)
            ELSE stream

\* The order of the random draws of a sweep is kept in ctr.drawOrder by a
\* run in mode "order": one entry [k, t, tree] per draw, k its kind.
Draw(k, tt, tree) == [k |-> k, t |-> tt, tree |-> tree]

Logged(kinds) == IF mode = "order" THEN kinds ELSE <<>>

\* The draws of one tree update with the acceptance draw made first.
TreeDrawsAcceptFirst(tt, tree, step, picked, base, proposed) ==
  (IF proposed THEN <<Draw("accept", tt, tree)>> ELSE <<>>)
  \o <<Draw("move", tt, tree)>>
  \o (IF step < 3 THEN (IF picked THEN <<Draw("split", tt, tree)>> ELSE <<>>)
      ELSE <<Draw("switch", tt, tree)>>)

\* The draws of one tree update, in the order of the code: the move type
\* (sampleInt), the node and split of tdlmProposeTree or the new exposure
\* (sampleInt), the coefficients of each mixMHR call (rnorm), the
\* acceptance draw (runif) when a move was proposed.
TreeDraws(tt, tree, step, picked, base, proposed) ==
  <<Draw("move", tt, tree)>>
  \o (IF step < 3 THEN (IF picked THEN <<Draw("split", tt, tree)>> ELSE <<>>)
      ELSE <<Draw("switch", tt, tree)>>)
  \o (IF base THEN <<Draw("coef", tt, tree)>> ELSE <<>>)
  \o (IF proposed
      THEN <<Draw("coef", tt, tree), Draw("accept", tt, tree)>> ELSE <<>>)

\* The draw of the pair's scale at the end of tdlmmTreeMCMC.
TauDraws(tt, shrinkage) ==
  IF shrinkage > 1 THEN <<Draw("tau", tt, 0)>> ELSE <<>>

\* The draws at the end of a sweep: nu, then for each exposure i its scale
\* and the interaction scales (j, i), then the Dirichlet draw.
RECURSIVE MixDraws(_, _, _)
MixDraws(i, j, interaction) ==
  IF j >= MaxExp THEN <<>>
  ELSE (IF j > i \/ interaction = 2 THEN <<Draw("muMix", j, i)>> ELSE <<>>)
       \o MixDraws(i, j + 1, interaction)

RECURSIVE ExpDraws(_, _)
ExpDraws(i, interaction) ==
  IF i >= MaxExp THEN <<>>
  ELSE <<Draw("muExp", i, 0)>>
       \o (IF interaction # 0 THEN MixDraws(i, i, interaction) ELSE <<>>)
       \o ExpDraws(i + 1, interaction)

SweepEndDraws(shrinkage, interaction, warmedUp) ==
  <<Draw("nu", 0, 0)>>
  \o (IF shrinkage = 3 \/ shrinkage = 1 THEN ExpDraws(0, interaction)
      ELSE <<>>)
  \o (IF warmedUp THEN <<Draw("dirichlet", 0, 0)>> ELSE <<>>)

\* ------------------------------------------------------------- tdlmm_Cpp
Pairs == 1..cfg.nTrees

NoLocals == [call |-> FALSE]
NoLog == [TreeAccept |-> <<>>, DLMexp |-> <<>>, MIXexp |-> <<>>,
          written |-> <<>>, recorded |-> <<>>]

\* ctr->nRec = floor(ctr->iter / ctr->thin)
NRec(c) == c.iter \div c.thin

\* The record index with the burn-in left out of the division.
RecordOfFromStart(c, b) ==
  IF b > c.burn /\ ((b - c.burn) % c.thin) = 0 THEN b \div c.thin ELSE 0

\* The record index of sweep b: floor((b - burn) / thin) on a thinning
\* boundary after burn-in, else 0.
RecordOf(c, b) ==
  IF b > c.burn /\ ((b - c.burn) % c.thin) = 0
  THEN (b - c.burn) \div c.thin ELSE 0

ZeroCount == [e \in 1..MaxExp |-> 0]
ZeroMix == [p \in Exposures \X Exposures |-> 0]

\* ctr->modKappa = model["mixPrior"]; if (ctr->modKappa < 0) it is set to 1.
ModKappaOf(mixPrior) == IF mixPrior < 0 THEN 1 ELSE mixPrior

\* bool updateKappa: true iff mixPrior is negative.  It is not read again.
UpdateKappaOf(mixPrior) == mixPrior < 0

\* (ctr->expCount).resize(n) without setZero: the entries hold no value
\* until the first sweep zeroes them.
UnsetCount == [e \in 1..MaxExp |-> [kind |-> "unset"]]

\* Outcome values (Y0's transforms kappa and z2, Ystar, R, fhat and the
\* fit columns) are counted in units of 1 / RUnit, so that the halves of
\* lines 628 and 641 are whole numbers: with RScale = 1 the value 0.5 is
\* held as 1 and the value 1 as 2.
RUnit == 2 * RScale

\* 0.5 * x, for a whole number x
HalfOf(x) == RScale * x

\* ctr->r = 5
ZinbR == 5

\* ctr->kappa = ctr->Y0 - 0.5 * ctr->binomialSize
KappaOf(c) == RUnit * c.Y - HalfOf(c.binomialSize)

\* ctr->z2 = 0.5 * (ctr->Y0 - ctr->r)
Z2Of(c) == HalfOf(c.Y - ZinbR)

\* ctr->Ystar before the trees are created: model["Y"], replaced by kappa
\* for binomial outcomes and by z2 for zero-inflated negative binomial ones.
WorkingResponse(c) ==
  IF c.family = "zinb" THEN Z2Of(c)
  ELSE IF c.family = "binomial" THEN KappaOf(c)
  ELSE RUnit * c.Y

\* 1 / Omega for the values rcpp_pgdraw may give Omega at setup.
OmegaInvs == {1, MaxOmegaInv}

\* ctr->Ystar = ctr->kappa.array() / ctr->Omega.array(), with w = 1 / Omega
PseudoY(kappa, w) == kappa * w

\* What a refit may do to the pseudo-outcome.  The refit returns the fixed
\* effects, the outcome variance and the family's nuisance state.  For a
\* Gaussian outcome none of the fields kept here is among them.  For a
\* binomial or zero-inflated outcome the nuisance state is the latent
\* weight Omega, which Ystar is computed from: the refit either leaves
\* Ystar or recomputes it from a redrawn Omega (w = 1 / Omega).
NoRefresh == [refresh |-> FALSE]

RefitOutcomes(family) ==
  IF family = "gaussian" THEN {NoRefresh}
  ELSE {NoRefresh} \cup {[refresh |-> TRUE, w |-> w] : w \in OmegaInvs}

\* tdlmModelEst(ctr) with the outcome o of the refit.  The residual R is
\* read by the refit and is not among what it returns.
tdlmModelEst(c, base, o) ==
  IF o.refresh THEN [c EXCEPT !.Ystar = PseudoY(base, o.w)] ELSE c

\* The control object before the trees are created: R is a copy of Ystar,
\* the working response (kappa for binomial outcomes, z2 for zinb).  kappaUsed lists the concentration of
\* every Dirichlet redraw so far.
InitCtr(c) ==
  [b |-> 1, record |-> 0, Ystar |-> WorkingResponse(c),
   R |-> WorkingResponse(c), fhat |-> 0,
   modKappa |-> ModKappaOf(c.mixPrior),
   updateKappa |-> UpdateKappaOf(c.mixPrior), kappaUsed |-> <<>>,
   drawOrder |-> <<>>,
   Rmat |-> <<>>, nu |-> 1, tau |-> <<>>,
   muExp |-> [e \in 1..MaxExp |-> 1],
   muMix |-> [p \in Exposures \X Exposures |-> 1],
   expProb |-> InitExpProb, expCount |-> UnsetCount,
   totTermExp |-> ZeroCount, mixCount |-> ZeroMix,
   nTerm |-> <<>>, nTerm2 |-> <<>>, tree1Exp |-> <<>>, tree2Exp |-> <<>>]

\* The interaction scale read at (smaller, larger) of the exposure pair.
MixVarOfTransposed(a, b) ==
  IF cfg.interaction # 0 /\ (cfg.interaction = 2 \/ a # b)
  THEN IF a <= b THEN ctr.muMix[<<a, b>>] ELSE ctr.muMix[<<b, a>>]
  ELSE 0

\* The interaction scale of exposures a and b: muMix at (larger, smaller)
\* when the interaction mode pairs them, else 0.
MixVarOf(a, b) ==
  IF cfg.interaction # 0 /\ (cfg.interaction = 2 \/ a # b)
  THEN IF a <= b THEN ctr.muMix[<<b, a>>] ELSE ctr.muMix[<<a, b>>]
  ELSE 0

\* The single-terminal fallback with prune left out of it.
StepFallbackChangeOnly(nTerm, step) ==
  IF nTerm = 1 /\ step = 2 THEN 0 ELSE step

\* if ((term.size() == 1) && (step < 3)) step = 0;
StepFallback(nTerm, step) == IF nTerm = 1 /\ step < 3 THEN 0 ELSE step

\* A switch-exposure move proposed whatever exposure was drawn.
SwitchProposedAlways(step, m, newExp) == step >= 3

\* if (newExp != m) { success = 1; ... }: a switch-exposure move is
\* proposed when the drawn exposure is not the tree's own.
SwitchProposed(step, m, newExp) == step >= 3 /\ newExp # m

\* The exposure of a tree after its move, set before the acceptance test.
ResolveExpEager(accepted, step, m, newExp) == IF step = 3 THEN newExp ELSE m

\* m = newExp on an accepted switch-exposure move.
ResolveExp(accepted, step, m, newExp) ==
  IF accepted /\ step = 3 THEN newExp ELSE m

\* The resolution of a move with the discard of a rejected proposal left
\* out: the tree keeps what was staged.
ResolveTreeNoReject(accepted, proposed, step, tree, staged, newTree) ==
  IF accepted
  THEN IF step = 3 THEN replaceNodeVals(tree, newTree) ELSE accept(staged)
  ELSE IF step < 3 /\ ~proposed THEN reject(staged)
  ELSE IF step < 3 THEN staged ELSE tree

\* The resolution of a move: an accepted switch-exposure replaces the node
\* values, an accepted local move is committed with accept(), a rejected
\* candidate and a local move that staged nothing go through reject(), a
\* switch-exposure that drew the tree's own exposure touches nothing.
ResolveTree(accepted, proposed, step, tree, staged, newTree) ==
  IF accepted
  THEN IF step = 3 THEN replaceNodeVals(tree, newTree) ELSE accept(staged)
  ELSE IF step < 3 \/ proposed THEN reject(staged)
  ELSE tree

\* The number of accept() and reject() calls the resolution makes.
ResolveCalls(accepted, proposed, step) ==
  IF accepted THEN (IF step = 3 THEN 0 ELSE 1)
  ELSE IF step < 3 \/ proposed THEN 1 ELSE 0

\* Node* newTree after the proposal: the clone (1) made in the else
\* branch of  if (step < 3)  when the drawn exposure differs from the
\* tree's, else the null pointer (0) it started as.
CandidatePtr(step, m, newExp) == IF step >= 3 /\ newExp # m THEN 1 ELSE 0

\* The clones left alive by  if (newTree != 0) delete newTree;
CandidatesLive(ptr) == ptr - (IF ptr # 0 THEN 1 ELSE 0)

\* After an accepted move of tree 1:
\* if (!binomial && !zinb) tree1->nodevals->tempV = mhr0.tempV;
CacheAfterAccept(family, tree, mhr) ==
  IF family = "gaussian" THEN [tree EXCEPT !.tempV = mhr.tempV] ELSE tree

\* The cache on tree 1 after an accepted move of tree 2, left as it was.
CacheAfterAccept2Kept(family, tree, mhr) == tree

\* After an accepted move of tree 2, the cache on tree 1 is replaced too:
\* if (!binomial && !zinb) tree1->nodevals->tempV = mhr0.tempV;
CacheAfterAccept2(family, tree, mhr) ==
  IF family = "gaussian" THEN [tree EXCEPT !.tempV = mhr.tempV] ELSE tree

\* The value of `ratio` a diagnostics row holds: the computed ratio, or
\* whatever an uninitialized double is read as.
RatioRead(ratio, g) ==
  IF ratio.kind = "unset" THEN [kind |-> "garbage", val |-> g] ELSE ratio

\* sampleInt(ctr->expProb) for the draw u: the total mass is probs.sum(),
\* so the scan ends inside the vector and has one outcome.
SampleExp(probs, u) == sampleIntScan(probs, u, 0, probs[1]).idx

\* Creation of the trees and the initial draws.  For binomial outcomes
\* Omega is drawn and Ystar becomes kappa / Omega, after R was copied from
\* the Ystar before it; R is left as it was.  The first refit follows.
CreateTrees ==
  /\ pc = "setup"
  /\ \E us \in [1..(2 * cfg.nTrees) -> Runif(SumSeq(ctr.expProb))] :
     \E w \in (IF cfg.family = "binomial" THEN OmegaInvs ELSE {1}) :
     \E o \in RefitOutcomes(cfg.family) :
       LET e1 == [k \in Pairs |-> SampleExp(ctr.expProb, us[2 * k - 1])]
           e2 == [k \in Pairs |-> SampleExp(ctr.expProb, us[2 * k])]
           d == [a |-> "create", us |-> us, w |-> w, o |-> o]
           drawn == [ctr EXCEPT
                       !.Ystar = IF cfg.family = "binomial"
                                 THEN PseudoY(@, w) ELSE @]
           est == tdlmModelEst(drawn, WorkingResponse(cfg), o)
       IN
         /\ Replayed(d)
         /\ Consume(d)
         /\ trees1' = [k \in Pairs |-> NewRootTree(e1[k], cfg.pX)]
         /\ trees2' = [k \in Pairs |-> NewRootTree(e2[k], cfg.pX)]
         /\ ctr' = [est EXCEPT
               !.tree1Exp = e1, !.tree2Exp = e2,
               !.nu = NuDrawn,
               !.tau = [k \in Pairs |->
                          IF cfg.shrinkage > 1 THEN TauDrawn(k - 1) ELSE 1],
               !.nTerm = [k \in Pairs |-> 1],
               !.nTerm2 = [k \in Pairs |-> 1],
               !.Rmat = [k \in Pairs |-> 0]]
  /\ dgn' = [dgn EXCEPT !.written = [c \in 1..NRec(cfg) |-> 0]]
  /\ pc' = "sweep"
  /\ UNCHANGED <<fnArgs, fnOut, cfg, t, loc, mode, firstLog>>

\* The head of the MCMC loop: burn-in and thinning, the reset of the
\* per-sweep accumulators, the first pair's fit taken out of R.
SweepStart ==
  /\ pc = "sweep"
  /\ ctr.b <= cfg.iter + cfg.burn
  /\ ctr' = [ctr EXCEPT
        !.record = RecordOf(cfg, ctr.b),
        !.drawOrder = <<>>,
        !.R = ctr.R + ctr.Rmat[1],
        !.fhat = 0,
        !.totTermExp = ZeroCount,
        !.expCount = ZeroCount,
        !.mixCount = ZeroMix]
  /\ t' = 0
  /\ pc' = "tree1"
  /\ UNCHANGED <<fnArgs, fnOut, cfg, trees1, trees2, loc, dgn,
                 mode, stream, firstLog>>

\* tdlmmTreeMCMC up to the record of tree 1: the locals are set, a move of
\* tree 1 is drawn, proposed, evaluated and accepted or rejected.
UpdateTree1 ==
  /\ pc = "tree1"
  /\ \E u \in Runif(One) : \E r \in sampleInt(cfg.stepProb, u) :
     LET tree1 == trees1[t + 1]
         tree2 == trees2[t + 1]
         term1 == listTerminal(tree1)
         term2 == listTerminal(tree2)
         m1 == ctr.tree1Exp[t + 1]
         m2 == ctr.tree2Exp[t + 1]
         m1Var == ctr.muExp[m1 + 1]
         m2Var == ctr.muExp[m2 + 1]
         mixVar == MixVarOf(m1, m2)
         step1 == StepFallback(Len(term1), r.idx)
     IN
     \E pr \in (IF step1 < 3 THEN ProposalDraws(tree1, step1)
                ELSE {[no |-> 0, s |-> 0]}) :
     \E uExp \in (IF step1 < 3 THEN {0}
                  ELSE Runif(SumSeq(ctr.expProb))) :
     LET staged == IF step1 < 3 THEN tdlmProposeTree(tree1, step1, pr)
                   ELSE tree1
         newExp == IF step1 < 3 THEN m1 ELSE SampleExp(ctr.expProb, uExp)
         switched == SwitchProposed(step1, m1, newExp)
         proposed == IF step1 < 3 THEN isProposed(staged) ELSE switched
         newTree == SwitchCandidate(tree1, newExp)
         newTerm == IF step1 < 3 THEN listTerminalProposed(staged)
                    ELSE listTerminal(newTree)
         newExpVar == IF switched THEN ctr.muExp[newExp + 1] ELSE m1Var
         newMixVar == IF switched THEN MixVarOf(newExp, m2) ELSE mixVar
         stepMhr == IF step1 < 3 /\ proposed THEN 1 ELSE 0
     IN
     \E pd0 \in LltOutcomes(term1, term2) :
     \E pd \in (IF proposed THEN LltOutcomes(newTerm, term2) ELSE {TRUE}) :
     \E acc \in (IF proposed THEN BOOLEAN ELSE {FALSE}) :
     \E g \in (IF cfg.diagnostics /\ ~proposed THEN Garbage ELSE {0}) :
     LET d == [a |-> "tree1", u |-> u, pr |-> pr, uExp |-> uExp,
               pd0 |-> pd0, pd |-> pd, acc |-> acc]
         base == mixMHR(term1, term2, cfg.family, mixVar, tree1,
                        tree1.tempV = NoTempV, pd0)
         cand == mixMHR(newTerm, term2, cfg.family, newMixVar, tree1,
                        TRUE, pd)
         accepted == proposed /\ acc
         mhr0 == IF accepted THEN cand ELSE base
         success == IF accepted THEN 2 ELSE IF proposed THEN 1 ELSE 0
         m1n == ResolveExp(accepted, step1, m1, newExp)
         switchAcc == accepted /\ step1 = 3
         tree1n ==
           IF accepted
           THEN CacheAfterAccept(cfg.family,
                  ResolveTree(accepted, proposed, step1, tree1, staged,
                              newTree), mhr0)
           ELSE ResolveTree(accepted, proposed, step1, tree1, staged,
                            newTree)
         term1n == IF accepted THEN listTerminal(tree1n) ELSE term1
         ratio == IF proposed THEN [kind |-> "ratio", tree |-> 1]
                  ELSE [kind |-> "unset"]
     IN
       /\ Replayed(d)
       /\ Consume(d)
       /\ trees1' = [trees1 EXCEPT ![t + 1] = tree1n]
       /\ loc' = [call |-> TRUE,
                  m1 |-> m1n, m2 |-> m2,
                  m1Var |-> IF switchAcc THEN newExpVar ELSE m1Var,
                  m2Var |-> m2Var,
                  mixVar |-> IF switchAcc THEN newMixVar ELSE mixVar,
                  term1 |-> term1n, term2 |-> term2,
                  mhr0 |-> mhr0, ratio |-> ratio,
                  drawn1 |-> r.idx, step1 |-> step1, nTermDraw1 |-> Len(term1),
                  success1 |-> success,
                  baseMix1 |-> mixVar,
                  switchProb1 |-> IF step1 = 3 THEN ctr.expProb ELSE <<>>,
                  candExp1 |-> newExp, candMix1 |-> newMixVar,
                  resolved1 |-> ResolveCalls(accepted, proposed, step1),
                  cloned1 |-> CandidatePtr(step1, m1, newExp),
                  live1 |-> CandidatesLive(CandidatePtr(step1, m1, newExp)),
                  baseCached |-> base.cached,
                  baseFresh |-> base.usedV = Gram(base.Xd),
                  lltFailed |-> ~pd0 \/ (proposed /\ ~pd)]
       /\ dgn' = IF cfg.diagnostics
                 THEN [dgn EXCEPT !.TreeAccept = Append(@,
                        [tree |-> 1, step |-> step1, success |-> success,
                         m |-> m1n, nTerm |-> Len(term1n),
                         stepMhr |-> stepMhr, ratio |-> RatioRead(ratio, g)])]
                 ELSE dgn
       /\ ctr' = [ctr EXCEPT !.drawOrder = @ \o Logged(
               TreeDraws(t, 1, step1, Len(MoveCandidates(tree1, step1)) > 0,
                         TRUE, proposed))]
  /\ pc' = "tree2"
  /\ UNCHANGED <<fnArgs, fnOut, cfg, t, trees2, mode, firstLog>>

\* tdlmmTreeMCMC from the update of tree 2 to its record: the candidate is
\* evaluated against mhr0, the evaluation tree 1 ended with.
UpdateTree2 ==
  /\ pc = "tree2"
  /\ \E u \in Runif(One) : \E r \in sampleInt(cfg.stepProb, u) :
     LET tree1 == trees1[t + 1]
         tree2 == trees2[t + 1]
         m1 == loc.m1
         m2 == loc.m2
         step2 == StepFallback(Len(loc.term2), r.idx)
     IN
     \E pr \in (IF step2 < 3 THEN ProposalDraws(tree2, step2)
                ELSE {[no |-> 0, s |-> 0]}) :
     \E uExp \in (IF step2 < 3 THEN {0}
                  ELSE Runif(SumSeq(ctr.expProb))) :
     LET staged == IF step2 < 3 THEN tdlmProposeTree(tree2, step2, pr)
                   ELSE tree2
         newExp == IF step2 < 3 THEN m2 ELSE SampleExp(ctr.expProb, uExp)
         switched == SwitchProposed(step2, m2, newExp)
         proposed == IF step2 < 3 THEN isProposed(staged) ELSE switched
         newTree == SwitchCandidate(tree2, newExp)
         newTerm == IF step2 < 3 THEN listTerminalProposed(staged)
                    ELSE listTerminal(newTree)
         newExpVar == IF switched THEN ctr.muExp[newExp + 1] ELSE loc.m2Var
         newMixVar == IF switched THEN MixVarOf(newExp, m1) ELSE loc.mixVar
         stepMhr == IF step2 < 3 /\ proposed THEN 1 ELSE 0
     IN
     \E pd \in (IF proposed THEN LltOutcomes(loc.term1, newTerm)
                ELSE {TRUE}) :
     \E acc \in (IF proposed THEN BOOLEAN ELSE {FALSE}) :
     \E g \in (IF cfg.diagnostics /\ ~proposed /\ loc.ratio.kind = "unset"
               THEN Garbage ELSE {0}) :
     LET d == [a |-> "tree2", u |-> u, pr |-> pr, uExp |-> uExp,
               pd |-> pd, acc |-> acc]
         cand == mixMHR(loc.term1, newTerm, cfg.family, newMixVar, tree1,
                        TRUE, pd)
         accepted == proposed /\ acc
         mhr0 == IF accepted THEN cand ELSE loc.mhr0
         success == IF accepted THEN 2 ELSE IF proposed THEN 1 ELSE 0
         m2n == ResolveExp(accepted, step2, m2, newExp)
         switchAcc == accepted /\ step2 = 3
         tree2n ==
           ResolveTree(accepted, proposed, step2, tree2, staged, newTree)
         tree1n == IF accepted THEN CacheAfterAccept2(cfg.family, tree1, mhr0)
                   ELSE tree1
         term2n == IF accepted THEN listTerminal(tree2n) ELSE loc.term2
         ratio == IF proposed THEN [kind |-> "ratio", tree |-> 2]
                  ELSE loc.ratio
     IN
       /\ Replayed(d)
       /\ Consume(d)
       /\ trees1' = [trees1 EXCEPT ![t + 1] = tree1n]
       /\ trees2' = [trees2 EXCEPT ![t + 1] = tree2n]
       /\ loc' = [loc EXCEPT
                  !.m2 = m2n,
                  !.m2Var = IF switchAcc THEN newExpVar ELSE @,
                  !.mixVar = IF switchAcc THEN newMixVar ELSE @,
                  !.term2 = term2n,
                  !.mhr0 = mhr0, !.ratio = ratio,
                  !.lltFailed = @ \/ (proposed /\ ~pd)]
                @@ [drawn2 |-> r.idx, step2 |-> step2,
                    nTermDraw2 |-> Len(loc.term2), success2 |-> success,
                    candExp2 |-> newExp, candMix2 |-> newMixVar,
                    switchProb2 |-> IF step2 = 3 THEN ctr.expProb ELSE <<>>,
                    resolved2 |-> ResolveCalls(accepted, proposed, step2),
                    cloned2 |-> CandidatePtr(step2, m2, newExp),
                    live2 |-> CandidatesLive(
                                CandidatePtr(step2, m2, newExp))]
       /\ dgn' = IF cfg.diagnostics
                 THEN [dgn EXCEPT !.TreeAccept = Append(@,
                        [tree |-> 2, step |-> step2, success |-> success,
                         m |-> m2n, nTerm |-> Len(term2n),
                         stepMhr |-> stepMhr, ratio |-> RatioRead(ratio, g)])]
                 ELSE dgn
       /\ ctr' = [ctr EXCEPT !.drawOrder = @ \o Logged(
               TreeDraws(t, 2, step2, Len(MoveCandidates(tree2, step2)) > 0,
                         FALSE, proposed))]
  /\ pc' = "finish"
  /\ UNCHANGED <<fnArgs, fnOut, cfg, t, mode, firstLog>>

\* The rows pushed to dgn->DLMexp for a recorded pair: the first terminal
\* node of tree 1, the terminal nodes of tree 2, the rest of tree 1.
DLMRows(rec, tt, term1, term2) ==
  LET row1(i) == [record |-> rec, t |-> tt, tree |-> 0, col |-> term1[i]]
      row2(j) == [record |-> rec, t |-> tt, tree |-> 1, col |-> term2[j]]
  IN <<row1(1)>> \o [j \in 1..Len(term2) |-> row2(j)]
       \o [i \in 1..(Len(term1) - 1) |-> row1(i + 1)]

\* The rows pushed to dgn->MIXexp: one per pair of terminal nodes, the
\* smaller exposure first.
MIXRows(rec, tt, term1, term2, m1, m2) ==
  [k \in 1..(Len(term1) * Len(term2)) |->
     LET i == ((k - 1) \div Len(term2)) + 1
         j == ((k - 1) % Len(term2)) + 1
     IN IF m1 <= m2
        THEN [record |-> rec, t |-> tt, a |-> term1[i], c |-> term2[j]]
        ELSE [record |-> rec, t |-> tt, a |-> term2[j], c |-> term1[i]]]

\* ctr->R += (ctr->Rmat).col(t + 1) - (ctr->Rmat).col(t)
ResidualShift(R, Rmat, tt) == R + Rmat[tt + 2] - Rmat[tt + 1]

\* The per-exposure accumulator with a pair of trees on one exposure
\* counted for its first tree only.
AddPerExposureDistinct(count, m1, w1, m2, w2) ==
  [e \in 1..MaxExp |->
     count[e] + (IF e = m1 + 1 THEN w1 ELSE 0)
              + (IF e = m2 + 1 /\ m2 # m1 THEN w2 ELSE 0)]

\* (ctr->expCount)(m1)++; (ctr->expCount)(m2)++; and likewise
\* (ctr->totTermExp)(m1) += mhr0.nTerm1; (ctr->totTermExp)(m2) += nTerm2
AddPerExposure(count, m1, w1, m2, w2) ==
  [e \in 1..MaxExp |->
     count[e] + (IF e = m1 + 1 THEN w1 ELSE 0)
              + (IF e = m2 + 1 THEN w2 ELSE 0)]

\* The end of tdlmmTreeMCMC (the pair's scale, the accumulators, the fit,
\* the effect records) and the tail of the loop over the pairs.
PairFinish ==
  /\ pc = "finish"
  /\ \E fit \in 0..MaxFit :
     LET d == [a |-> "finish", fit |-> fit]
         m1 == loc.m1
         m2 == loc.m2
         n1 == loc.mhr0.nTerm1
         n2 == loc.mhr0.nTerm2
         hi == IF m1 <= m2 THEN m2 ELSE m1
         lo == IF m1 <= m2 THEN m1 ELSE m2
         Rmat == [ctr.Rmat EXCEPT ![t + 1] = fit]
     IN
       /\ Replayed(d)
       /\ Consume(d)
       /\ ctr' = [ctr EXCEPT
             !.tau[t + 1] = IF cfg.shrinkage > 1 THEN TauDrawn(t) ELSE @,
             !.drawOrder = @ \o Logged(TauDraws(t, cfg.shrinkage)),
             !.nTerm[t + 1] = n1,
             !.nTerm2[t + 1] = n2,
             !.tree1Exp[t + 1] = m1,
             !.tree2Exp[t + 1] = m2,
             !.expCount = AddPerExposure(@, m1, 1, m2, 1),
             !.totTermExp = AddPerExposure(@, m1, n1, m2, n2),
             !.mixCount[<<hi, lo>>] = IF loc.mixVar # 0 THEN @ + 1 ELSE @,
             !.Rmat = Rmat,
             !.fhat = @ + fit,
             !.R = IF t < cfg.nTrees - 1
                   THEN ResidualShift(ctr.R, Rmat, t) ELSE @]
       /\ dgn' = IF ctr.record > 0
                 THEN [dgn EXCEPT
                   !.DLMexp = @ \o DLMRows(ctr.record, t, loc.term1,
                                            loc.term2),
                   !.MIXexp = IF loc.mixVar # 0
                              THEN @ \o MIXRows(ctr.record, t, loc.term1,
                                                 loc.term2, m1, m2)
                              ELSE @]
                 ELSE dgn
  /\ loc' = NoLocals
  /\ t' = t + 1
  /\ pc' = IF t + 1 < cfg.nTrees THEN "tree1" ELSE "est"
  /\ UNCHANGED <<fnArgs, fnOut, cfg, trees1, trees2, mode, firstLog>>

\* The exposure scales redrawn in every shrinkage mode but 0.
LocalScalesFromOne(shrinkage) == shrinkage >= 1

\* if ((ctr->shrinkage == 3) || (ctr->shrinkage == 1)): the exposure and
\* interaction scales are redrawn at the end of the sweep.
LocalScales(shrinkage) == shrinkage = 3 \/ shrinkage = 1

\* The warm-up over from the sweep at half of the burn-in on.
WarmedUpAtHalf(b, burn) == b > 1000 \/ 2 * b >= burn

\* The warm-up test of the exposure-selection update.
WarmedUp(b, burn) == b > 1000 \/ 2 * b > burn

\* The end of a sweep: the full residual, the refit, the shrinkage draws,
\* the exposure-selection probabilities, the record.
SweepEnd ==
  /\ pc = "est"
  /\ \E o \in RefitOutcomes(cfg.family) :
     LET d == [a |-> "est", o |-> o]
         est == tdlmModelEst([ctr EXCEPT !.R = ctr.Ystar - ctr.fhat],
                             WorkingResponse(cfg), o)
         local == LocalScales(cfg.shrinkage)
     IN
       /\ Replayed(d)
       /\ Consume(d)
       /\ ctr' = [est EXCEPT
             !.nu = NuDrawn,
             !.muExp = IF local THEN [e \in 1..MaxExp |-> MuExpDrawn(e - 1)]
                       ELSE @,
             !.muMix = IF local /\ cfg.interaction # 0
                       THEN [p \in Exposures \X Exposures |->
                               IF p[1] > p[2]
                                  \/ (p[1] = p[2] /\ cfg.interaction = 2)
                               THEN MuMixDrawn(p[1], p[2]) ELSE @[p]]
                       ELSE @,
             !.expProb = IF WarmedUp(ctr.b, cfg.burn) THEN DrawnExpProb
                         ELSE @,
             !.drawOrder = @ \o Logged(SweepEndDraws(cfg.shrinkage,
                             cfg.interaction, WarmedUp(ctr.b, cfg.burn))),
             !.kappaUsed = IF WarmedUp(ctr.b, cfg.burn)
                           THEN Append(@, ctr.modKappa) ELSE @,
             !.b = @ + 1]
       /\ dgn' = IF ctr.record > 0
                 THEN [dgn EXCEPT !.written[ctr.record] = @ + 1,
                                  !.recorded = Append(@, ctr.record)]
                 ELSE dgn
  /\ pc' = "sweep"
  /\ UNCHANGED <<fnArgs, fnOut, cfg, t, trees1, trees2, loc, mode, firstLog>>

\* The loop ends when b exceeds iter + burn; the logs are returned.
RunEnd ==
  /\ pc = "sweep"
  /\ ctr.b > cfg.iter + cfg.burn
  /\ pc' = "done"
  /\ UNCHANGED <<fnArgs, fnOut, cfg, t, trees1, trees2, ctr, loc, dgn,
                 mode, stream, firstLog>>

\* A second run with the configuration and the random values of the first.
Rerun ==
  /\ pc = "done"
  /\ mode = "record"
  /\ mode' = "replay"
  /\ firstLog' = dgn
  /\ pc' = "setup"
  /\ t' = 0
  /\ trees1' = <<>>
  /\ trees2' = <<>>
  /\ ctr' = InitCtr(cfg)
  /\ loc' = NoLocals
  /\ dgn' = NoLog
  /\ UNCHANGED <<fnArgs, fnOut, cfg, stream>>

\* ------------------------------------------------------- utility calls
SortedSeqs ==
  {s \in UNION {[1..n -> 1..MaxVal] : n \in 0..MaxLen} :
     \A k \in 1..(Len(s) - 1) : s[k] <= s[k + 1]}

ProbWeights == {0, 4, 6, 10}
ProbVecs == UNION {[1..n -> ProbWeights] : n \in 1..MaxLen}

FnCalls ==
  {[f |-> "intersectAndDiff", origVec |-> a, newVec |-> c] :
     a \in SortedSeqs, c \in SortedSeqs}
  \cup UNION {
    {[f |-> "sampleInt", probs |-> pt[1], totP |-> pt[2], u |-> u] :
       u \in Runif(pt[2])} :
    pt \in {q \in ProbVecs \X (0..20) : q[2] \in {SumSeq(q[1]), 20}} }

CallIntersectAndDiff ==
  /\ pc = "fn"
  /\ fnArgs.f = "intersectAndDiff"
  /\ fnOut = NoCall
  /\ fnOut' = [out |-> intersectAndDiff(fnArgs.origVec, fnArgs.newVec)]
  /\ UNCHANGED <<fnArgs, runVars, replayVars>>

CallSampleInt ==
  /\ pc = "fn"
  /\ fnArgs.f = "sampleInt"
  /\ fnOut = NoCall
  /\ \E r \in sampleInt(fnArgs.probs, fnArgs.u) : fnOut' = r
  /\ UNCHANGED <<fnArgs, runVars, replayVars>>

\* ------------------------------------------------------- specifications
NoCfg == [nTrees |-> 0]

\* A `model` list: burn sweeps of burn-in, then iter sweeps, thin = 1.
ConfigsOf(sizes, inters, shrinks, fams, priors, diag, burn, iter) ==
  {[nTrees |-> z.nTrees, pX |-> z.pX, nExp |-> MaxExp,
    interaction |-> i, shrinkage |-> s, family |-> f, mixPrior |-> k,
    diagnostics |-> diag, iter |-> iter, burn |-> burn, thin |-> 1,
    stepProb |-> StepProb, Y |-> 1, binomialSize |-> 1] :
     z \in sizes, i \in inters, s \in shrinks, f \in fams,
     k \in priors}

\* The configurations of a run: a pair of trees over MaxPX time points,
\* MaxTrees pairs over a single time point, and the other families,
\* interaction modes and shrinkage modes on the smallest model.
Configs ==
  ConfigsOf({[nTrees |-> 1, pX |-> MaxPX]}, {1}, {3}, {"gaussian"},
            {-1}, FALSE, 1, MaxSweeps - 1)
  \cup ConfigsOf({[nTrees |-> MaxTrees, pX |-> 1]}, {2}, {2}, {"binomial"},
                 {0}, FALSE, 1, MaxSweeps - 1)
  \cup ConfigsOf({[nTrees |-> 1, pX |-> 1]}, {0, 1}, {0, 1},
                 {"gaussian", "zinb"}, {-1, 2}, FALSE, 1,
                 MaxSweeps - 1)

InitRun(configs, m) ==
  /\ cfg \in configs
  /\ pc = "setup"
  /\ t = 0
  /\ trees1 = <<>>
  /\ trees2 = <<>>
  /\ ctr = InitCtr(cfg)
  /\ loc = NoLocals
  /\ dgn = NoLog
  /\ mode = m
  /\ stream = <<>>
  /\ firstLog = NoLog
  /\ fnArgs = NoCall
  /\ fnOut = NoCall

Init == InitRun(Configs, "run")

Next ==
  \/ CreateTrees
  \/ SweepStart
  \/ UpdateTree1
  \/ UpdateTree2
  \/ PairFinish
  \/ SweepEnd
  \/ RunEnd

Spec == Init /\ [][Next]_vars

\* A run and its rerun on the same random values, with diagnostics.
ReplayConfigs ==
  ConfigsOf({[nTrees |-> 1, pX |-> 1]}, {1}, {3}, {"gaussian"}, {1}, TRUE,
            0, 1)

InitReplay == InitRun(ReplayConfigs, "record")

NextReplay == Next \/ Rerun

\* A sweep over two pairs with the order of its random draws kept.
OrderConfigs ==
  ConfigsOf({[nTrees |-> MaxTrees, pX |-> 1]}, {1}, {3}, {"gaussian"},
            {1}, FALSE, 0, 1)

InitOrder == InitRun(OrderConfigs, "order")

\* Runs of the smallest model over the iteration counts, burn-in lengths
\* and thinning intervals.
RecordConfigs ==
  {[c EXCEPT !.iter = i, !.burn = b, !.thin = th] :
     c \in ConfigsOf({[nTrees |-> 1, pX |-> 1]}, {0}, {0}, {"binomial"},
                     {1}, FALSE, 0, 0),
     i \in 0..MaxIter, b \in 0..MaxBurn, th \in 1..MaxThin}

InitRecord == InitRun(RecordConfigs, "run")

SpecRecord == InitRecord /\ [][Next]_vars

SpecOrder == InitOrder /\ [][Next]_vars

\* Runs of the smallest model over the shrinkage modes and the two
\* interaction modes, with burn-in sweeps before and after the warm-up
\* threshold and the draws of each sweep kept.
ScaleConfigs ==
  {[c EXCEPT !.burn = b] :
     c \in ConfigsOf({[nTrees |-> 1, pX |-> 1]}, {1, 2}, {0, 1, 2, 3},
                     {"gaussian"}, {1}, FALSE, 0, 0),
     b \in {MaxWarmup - 1, MaxWarmup}}

InitScales == InitRun(ScaleConfigs, "order")

SpecScales == InitScales /\ [][Next]_vars

SpecReplay == InitReplay /\ [][NextReplay]_vars

\* The utility functions applied to bounded inputs.
InitFn ==
  /\ fnArgs \in FnCalls
  /\ fnOut = NoCall
  /\ cfg = NoCfg
  /\ pc = "fn"
  /\ t = 0
  /\ trees1 = <<>>
  /\ trees2 = <<>>
  /\ ctr = [b |-> 0]
  /\ loc = NoLocals
  /\ dgn = NoLog
  /\ mode = "run"
  /\ stream = <<>>
  /\ firstLog = NoLog

NextFn == CallIntersectAndDiff \/ CallSampleInt

SpecFn == InitFn /\ [][NextFn]_vars

\* ------------------------------------------------------------ properties
Count(s, v) == Cardinality({k \in 1..Len(s) : s[k] = v})

CalledIad == fnArgs.f = "intersectAndDiff" /\ fnOut # NoCall
CalledSampleInt == fnArgs.f = "sampleInt" /\ fnOut # NoCall

\* C2: for sorted A (origVec) and B (newVec), empty or with repeated values,
\* the intersection followed by the difference holds every value as often
\* as A does.
C2_IntersectionAndDifferenceMakeA ==
  CalledIad =>
    \A v \in 1..MaxVal :
      Count(fnOut.out[1] \o fnOut.out[2], v) = Count(fnArgs.origVec, v)

\* A call on an A with a repeated value that is split between the
\* intersection and the tail copied into the difference.
C2_Witness ==
  /\ CalledIad
  /\ fnArgs.origVec = <<2, 2, 3>>
  /\ fnArgs.newVec = <<2>>
  /\ fnOut.out = << <<2>>, <<2, 3>> >>

\* probs[0] + ... + probs[i]
RECURSIVE CumSum(_, _)
CumSum(probs, i) == IF i < 0 THEN 0 ELSE probs[i + 1] + CumSum(probs, i - 1)

\* The indices of probs whose cumulative sum reaches u.
Reaching(probs, u) == {i \in 0..(Len(probs) - 1) : CumSum(probs, i) >= u}

\* sampleInt returned the smallest index whose cumulative sum reaches u.
ReturnedSmallestReaching ==
  /\ ~fnOut.oob
  /\ fnOut.idx \in Reaching(fnArgs.probs, fnArgs.u)
  /\ \A i \in Reaching(fnArgs.probs, fnArgs.u) : fnOut.idx <= i

C4_IndexInRange ==
  CalledSampleInt => (~fnOut.oob /\ fnOut.idx \in 0..(Len(fnArgs.probs) - 1))

\* A call with probs = [0.2, 0.3], totP = 1 and the draw 0.9: the scan has
\* read probs[2].
C4_Witness ==
  /\ CalledSampleInt
  /\ fnArgs.probs = <<4, 6>>
  /\ fnArgs.totP = 20
  /\ fnArgs.u = 18
  /\ fnOut = PastEnd

\* The terminal windows of a committed tree are pairwise disjoint and cover
\* the time points 1..pX.
Partitions(tree, pX) ==
  LET tc == listTerminal(tree)
  IN /\ \A a \in 1..Len(tc), c \in 1..Len(tc) :
          a # c => (tc[a].tmax < tc[c].tmin \/ tc[c].tmax < tc[a].tmin)
     /\ UNION {tc[a].tmin .. tc[a].tmax : a \in 1..Len(tc)} = 1..pX

\* C1: every tree starts as a single root over the whole domain and, after
\* any sequence of committed or discarded grow, prune and change moves, its
\* terminal windows are pairwise disjoint and their union is the domain.
\* Grow and prune keep it.  A committed change keeps it when every split
\* below the changed node still lies inside its node's window; the first
\* change that can do otherwise follows two grows of one tree over four or
\* more time points.
C1_TerminalWindowsPartitionDomain ==
  pc # "setup" =>
    \A k \in Pairs : /\ Partitions(trees1[k], cfg.pX)
                     /\ Partitions(trees2[k], cfg.pX)

\* The sum of the fit columns of all pairs but pair tt (0-based).
RECURSIVE SumOthers(_, _, _)
SumOthers(Rmat, tt, k) ==
  IF k > Len(Rmat) THEN 0
  ELSE (IF k = tt + 1 THEN 0 ELSE Rmat[k]) + SumOthers(Rmat, tt, k + 1)

\* C6: while tdlmmTreeMCMC runs for pair t, R is Ystar minus the fit
\* columns of all other pairs (new fits before t, previous-sweep fits after
\* t); between sweeps R is Ystar minus the fits of all pairs.
C6_ResidualExcludesOwnFit ==
  /\ pc \in {"tree1", "tree2", "finish"} =>
       ctr.R = ctr.Ystar - SumOthers(ctr.Rmat, t, 1)
  /\ pc \in {"sweep", "done"} => ctr.R = ctr.Ystar - SumSeq(ctr.Rmat)

\* The first pair is called in the first sweep of a binomial run whose
\* Omega is not 1: R is the kappa copied before Omega was drawn, Ystar is
\* kappa / Omega, and no fit has been made yet.
C6_Witness ==
  /\ pc = "tree1"
  /\ t = 0
  /\ ctr.b = 1
  /\ cfg.family = "binomial"
  /\ ctr.Ystar = PseudoY(KappaOf(cfg), MaxOmegaInv)
  /\ ctr.R = KappaOf(cfg)
  /\ ctr.R # ctr.Ystar - SumOthers(ctr.Rmat, t, 1)

\* C7: a tree with one terminal node when its move is drawn has a drawn
\* prune (1) or change (2) replaced by grow (0) and a drawn switch-exposure
\* (3) kept; prune and change are proposed on larger trees only.
C7_SingleTerminalFallsBackToGrow ==
  /\ pc \in {"tree2", "finish"} =>
       /\ (loc.nTermDraw1 = 1 /\ loc.drawn1 \in {1, 2}) => loc.step1 = 0
       /\ (loc.nTermDraw1 = 1 /\ loc.drawn1 = 3) => loc.step1 = 3
       /\ loc.step1 \in {1, 2} => loc.nTermDraw1 > 1
  /\ pc = "finish" =>
       /\ (loc.nTermDraw2 = 1 /\ loc.drawn2 \in {1, 2}) => loc.step2 = 0
       /\ (loc.nTermDraw2 = 1 /\ loc.drawn2 = 3) => loc.step2 = 3
       /\ loc.step2 \in {1, 2} => loc.nTermDraw2 > 1

\* Change was drawn for a single-terminal tree 1 and grow was proposed.
C7_Witness ==
  /\ pc = "tree2"
  /\ loc.nTermDraw1 = 1
  /\ loc.drawn1 = 2
  /\ loc.step1 = 0

\* C8: a move that is rejected or could not be proposed leaves the tree's
\* committed structure, its terminal-node list, its exposure, the exposure
\* and interaction scales of the step and the cached matrix as they were.
C8_RejectedMoveChangesNothing ==
  [][/\ (pc = "tree1" /\ pc' = "tree2" /\ loc'.success1 # 2) =>
         /\ trees1'[t + 1].nodes = trees1[t + 1].nodes
         /\ trees1'[t + 1].xexp = trees1[t + 1].xexp
         /\ trees1'[t + 1].tempV = trees1[t + 1].tempV
         /\ ~isProposed(trees1'[t + 1])
         /\ loc'.term1 = listTerminal(trees1[t + 1])
         /\ loc'.m1 = ctr.tree1Exp[t + 1]
         /\ loc'.m1Var = ctr.muExp[ctr.tree1Exp[t + 1] + 1]
         /\ loc'.mixVar = MixVarOf(ctr.tree1Exp[t + 1], ctr.tree2Exp[t + 1])
     /\ (pc = "tree2" /\ pc' = "finish" /\ loc'.success2 # 2) =>
         /\ trees2'[t + 1].nodes = trees2[t + 1].nodes
         /\ trees2'[t + 1].xexp = trees2[t + 1].xexp
         /\ ~isProposed(trees2'[t + 1])
         /\ trees1'[t + 1].tempV = trees1[t + 1].tempV
         /\ loc'.term2 = loc.term2
         /\ loc'.m2 = loc.m2
         /\ loc'.m2Var = loc.m2Var
         /\ loc'.mixVar = loc.mixVar
         /\ loc'.mhr0 = loc.mhr0]_vars

\* A switch-exposure move of tree 1 to another exposure was rejected.
C8_Witness ==
  /\ pc = "tree2"
  /\ loc.step1 = 3
  /\ loc.success1 = 1

\* The matrix computed for the committed trees of pair k as they are.
FreshV(k) ==
  Gram(DesignXd(listTerminal(trees1[k]), listTerminal(trees2[k]),
                MixVarOf(trees1[k].xexp, trees2[k].xexp) # 0))

\* C9: for continuous outcomes a non-empty cache is the matrix of the
\* pair's committed terminal nodes, exposures and interaction block, and a
\* baseline evaluation that read the cache read that matrix.
C9_CacheMatchesCommittedTrees ==
  (cfg.family = "gaussian" /\ pc # "setup") =>
    /\ \A k \in Pairs :
         trees1[k].tempV # NoTempV => trees1[k].tempV = FreshV(k)
    /\ (pc \in {"tree2", "finish"} /\ loc.baseCached) => loc.baseFresh

\* The baseline of the second sweep read the cache stored in the first,
\* after tree 1 had grown.
C9_Witness ==
  /\ cfg.family = "gaussian"
  /\ pc = "tree2"
  /\ ctr.b = 2
  /\ loc.baseCached
  /\ loc.nTermDraw1 = 2

\* The move types and outcomes a diagnostics log records, row by row.
Decisions(log) ==
  [k \in 1..Len(log.TreeAccept) |->
     [tree |-> log.TreeAccept[k].tree, step |-> log.TreeAccept[k].step,
      success |-> log.TreeAccept[k].success]]

\* C5: a run and its rerun with the same configuration and the same
\* random values make the same move-type choices and accept/reject
\* decisions and end with identical diagnostic logs.
C5_RerunRepeatsTheLog ==
  (mode = "replay" /\ pc = "done") =>
    /\ Decisions(dgn) = Decisions(firstLog)
    /\ dgn = firstLog

\* A rerun has ended with the decisions of the first run and another log:
\* a row of a move that was not proposed holds another ratio.
C5_Witness ==
  /\ mode = "replay"
  /\ pc = "done"
  /\ Decisions(dgn) = Decisions(firstLog)
  /\ dgn.TreeAccept # firstLog.TreeAccept
  /\ \E k \in 1..Len(dgn.TreeAccept) :
       /\ dgn.TreeAccept[k].success = 0
       /\ dgn.TreeAccept[k].ratio # firstLog.TreeAccept[k].ratio

\* C10: when the Cholesky factorization of an evaluation fails, the run
\* ends with an error: no acceptance decision follows and no state is
\* updated from the evaluation.
C10_FactorizationFailureIsFatal ==
  (loc.call /\ loc.lltFailed) => pc = "error"

\* A factorization failed in the update of tree 1 and the move was
\* accepted on its result.
C10_Witness ==
  /\ pc = "tree2"
  /\ loc.lltFailed
  /\ loc.success1 = 2
  /\ ~loc.mhr0.lltOk

\* C11: with a negative mixPrior the concentration of the Dirichlet redraws
\* is updated during the run, so it is not one fixed value over the
\* redraws of a run; with a non-negative mixPrior every redraw uses the
\* configured value.
C11_NegativeMixPriorAdapts ==
  (pc = "done" /\ Len(ctr.kappaUsed) >= 2) =>
    IF cfg.mixPrior < 0
    THEN \E a \in 1..Len(ctr.kappaUsed), c \in 1..Len(ctr.kappaUsed) :
           ctr.kappaUsed[a] # ctr.kappaUsed[c]
    ELSE \A a \in 1..Len(ctr.kappaUsed) : ctr.kappaUsed[a] = cfg.mixPrior

\* A run configured with mixPrior = -1 has ended: both redraws used the
\* concentration 1, and the flag that asks for the update was set.
C11_Witness ==
  /\ pc = "done"
  /\ cfg.mixPrior = -1
  /\ ctr.updateKappa
  /\ ctr.kappaUsed = <<1, 1>>

\* Positions of the draws of the current sweep.
DrawPos == 1..Len(ctr.drawOrder)
KindAt(a) == ctr.drawOrder[a].k
SameUpdate(a, c) ==
  /\ ctr.drawOrder[a].t = ctr.drawOrder[c].t
  /\ ctr.drawOrder[a].tree = ctr.drawOrder[c].tree

\* In each tree update the move-type draw comes before the split or
\* exposure-switch draw, which comes before the acceptance draw.
UpdateDrawsInOrder ==
  \A a \in DrawPos, c \in DrawPos :
    SameUpdate(a, c) =>
      /\ (KindAt(a) = "move" /\ KindAt(c) \in {"split", "switch", "accept"})
           => a < c
      /\ (KindAt(a) \in {"split", "switch"} /\ KindAt(c) = "accept")
           => a < c

ShrinkageBeforeDirichlet ==
  \A a \in DrawPos, c \in DrawPos :
    (KindAt(a) \in {"tau", "nu", "muExp", "muMix"} /\ KindAt(c) = "dirichlet")
      => a < c

\* C12 as stated: within a sweep each update draws move type, then split
\* or exposure switch, then acceptance; every shrinkage draw, the scale of
\* each tree pair included, follows every acceptance draw of the sweep and
\* precedes the Dirichlet draw.
C12_ShrinkageAfterEveryAcceptance ==
  /\ UpdateDrawsInOrder
  /\ ShrinkageBeforeDirichlet
  /\ \A a \in DrawPos, c \in DrawPos :
       (KindAt(a) = "accept"
        /\ KindAt(c) \in {"tau", "nu", "muExp", "muMix"}) => a < c

\* C12 amended: the scale of pair t is drawn at the end of pair t's step,
\* after the draws of pair t and before the move-type draws of the later
\* pairs; nu and the exposure and interaction scales follow every
\* acceptance draw of the sweep; all of them precede the Dirichlet draw.
C12_DrawOrderOfASweep ==
  /\ UpdateDrawsInOrder
  /\ ShrinkageBeforeDirichlet
  /\ \A a \in DrawPos, c \in DrawPos :
       /\ (KindAt(a) \in {"accept", "tau"}
           /\ KindAt(c) \in {"nu", "muExp", "muMix"}) => a < c
       /\ (KindAt(a) \in {"move", "split", "switch", "accept"}
           /\ KindAt(c) = "tau"
           /\ ctr.drawOrder[a].t = ctr.drawOrder[c].t) => a < c
       /\ (KindAt(a) = "tau" /\ KindAt(c) = "move"
           /\ ctr.drawOrder[a].t < ctr.drawOrder[c].t) => a < c

\* A sweep has ended in which the scale of the first pair was drawn before
\* an acceptance draw of the second pair, and the Dirichlet draw came last.
C12_Witness ==
  /\ pc = "done"
  /\ KindAt(Len(ctr.drawOrder)) = "dirichlet"
  /\ \E a \in DrawPos, c \in DrawPos :
       /\ a < c
       /\ ctr.drawOrder[a] = Draw("tau", 0, 0)
       /\ ctr.drawOrder[c] = Draw("accept", 1, 1)
  /\ \E a \in DrawPos : ctr.drawOrder[a] = Draw("accept", 0, 2)

\* C13: sweep b records iff b > burn and b - burn is a multiple of thin;
\* the record index is then (b - burn) / thin, within 1..nRec with
\* nRec = floor(iter / thin); over the run the indices 1, ..., nRec are
\* taken in order and every column of the log is written exactly once.
C13_EveryRecordWrittenOnce ==
  LET nRec == cfg.iter \div cfg.thin
      onBoundary == \E k \in 1..(cfg.iter + cfg.burn) :
                      ctr.b = cfg.burn + k * cfg.thin
  IN /\ pc \in {"tree1", "tree2", "finish", "est"} =>
          /\ ctr.record > 0 <=> onBoundary
          /\ ctr.record > 0 =>
               /\ ctr.record \in 1..nRec
               /\ ctr.record * cfg.thin = ctr.b - cfg.burn
               /\ dgn.recorded = [k \in 1..(ctr.record - 1) |-> k]
     /\ pc = "done" =>
          /\ dgn.recorded = [k \in 1..nRec |-> k]
          /\ DOMAIN dgn.written = 1..nRec
          /\ \A k \in 1..nRec : dgn.written[k] = 1

\* A run with burn = 1, iter = 3 and thin = 2 has ended: of its four
\* sweeps only the third recorded, in column 1.
C13_Witness ==
  /\ pc = "done"
  /\ cfg.burn = 1 /\ cfg.iter = 3 /\ cfg.thin = 2
  /\ ctr.b = 5
  /\ dgn.recorded = <<1>>
  /\ dgn.written = <<1>>


\* No tree of the model holds staged state.
NothingStaged ==
  \A k \in Pairs : trees1[k].prop = NoProp /\ trees2[k].prop = NoProp

\* C14: every staged grow, prune or change is resolved by exactly one
\* accept or reject before the step moves on to the other tree or returns,
\* every cloned switch-exposure candidate is deleted before then, and no
\* tree holds staged state once its update is over.
C14_StagedMovesAreResolved ==
  /\ pc \in {"sweep", "tree1", "tree2", "finish", "est", "done"}
       => NothingStaged
  /\ (pc \in {"tree2", "finish"} /\ loc.call) =>
       /\ (loc.step1 < 3 /\ loc.success1 >= 1) => loc.resolved1 = 1
       /\ loc.live1 = 0
  /\ (pc = "finish" /\ loc.call) =>
       /\ (loc.step2 < 3 /\ loc.success2 >= 1) => loc.resolved2 = 1
       /\ loc.live2 = 0

\* A pair whose tree 1 staged a local move that was rejected and whose
\* tree 2 cloned a switch-exposure candidate that was accepted.
C14_Witness ==
  /\ pc = "finish" /\ loc.call
  /\ loc.step1 < 3 /\ loc.success1 = 1
  /\ loc.step2 = 3 /\ loc.success2 = 2 /\ loc.cloned2 = 1

\* The two exposures are paired by the interaction mode: always in mode 2,
\* in mode 1 when they differ, never in mode 0.
PairedByMode(a, b) ==
  cfg.interaction = 2 \/ (cfg.interaction = 1 /\ a # b)

\* The exposure-pair matrix entry at (larger index, smaller index).
AtLargerSmaller(M, a, b) == IF a >= b THEN M[<<a, b>>] ELSE M[<<b, a>>]

\* The scale v is the one the rule gives the pairing (a, b).
ScaleFollowsRule(v, a, b) ==
  /\ (v # 0) <=> PairedByMode(a, b)
  /\ v # 0 => v = AtLargerSmaller(ctr.muMix, a, b)

\* The scales of the engine calls of a pair's step follow the rule.
EngineScalesFollowRule ==
  /\ (pc = "tree2" /\ loc.call) =>
       /\ ScaleFollowsRule(loc.baseMix1, ctr.tree1Exp[t + 1],
                            ctr.tree2Exp[t + 1])
       /\ loc.success1 >= 1 =>
            ScaleFollowsRule(loc.candMix1, loc.candExp1, loc.m2)
       /\ ScaleFollowsRule(loc.mixVar, loc.m1, loc.m2)
  /\ (pc = "finish" /\ loc.call) =>
       /\ loc.success2 >= 1 =>
            ScaleFollowsRule(loc.candMix2, loc.m1, loc.candExp2)
       /\ ScaleFollowsRule(loc.mixVar, loc.m1, loc.m2)

\* The end of a pair's step counts the pair at (larger, smaller) when its
\* scale is nonzero and changes no other entry of the pair counts.
AccumulatedAtLargerSmaller ==
  pc = "finish" =>
    \A a, b \in Exposures :
      ctr.mixCount[<<a, b>>]' = ctr.mixCount[<<a, b>>] +
        (IF /\ PairedByMode(loc.m1, loc.m2)
            /\ a >= b /\ {a, b} = {loc.m1, loc.m2}
         THEN 1 ELSE 0)

\* C15: for the current and every candidate exposure pairing the
\* interaction scale handed to the engine is nonzero iff the mode is 2, or
\* the mode is 1 and the two exposures differ (so always zero with mode
\* 0), and it is read from and counted into the exposure-pair matrices at
\* (larger exposure index, smaller exposure index).
C15_InteractionScaleFollowsMode ==
  [][EngineScalesFollowRule' /\ AccumulatedAtLargerSmaller]_vars

\* After a sweep that redrew the scales, a pair of two different exposures
\* in mode 1 whose tree 1 proposed a switch onto the exposure of tree 2.
C15_Witness ==
  /\ pc = "tree2" /\ loc.call /\ ctr.b >= 2
  /\ cfg.interaction = 1 /\ cfg.shrinkage = 3
  /\ ctr.tree1Exp[t + 1] # ctr.tree2Exp[t + 1]
  /\ loc.baseMix1 > 1
  /\ loc.step1 = 3 /\ loc.success1 >= 1 /\ loc.candExp1 = loc.m2
  /\ loc.candMix1 = 0

\* The draws of kind k in the log of the sweep.
DrawsOf(k) == {a \in DrawPos : KindAt(a) = k}

\* A sweep has just ended: its draws are in the log.
SweepEnded == pc = "sweep" /\ ctr.b > 1

\* C16: nu is redrawn in every sweep; tau(t) is redrawn only when
\* shrinkage > 1, muExp and muMix only when shrinkage is 1 or 3; a scale
\* the shrinkage mode does not redraw is 1 throughout the run; in
\* interaction mode 1 the entries muMix(i, i) are never redrawn.
C16_ScalesRedrawnByShrinkageMode ==
  /\ SweepEnded => Cardinality(DrawsOf("nu")) = 1
  /\ DrawsOf("tau") # {} => cfg.shrinkage > 1
  /\ DrawsOf("muExp") \cup DrawsOf("muMix") # {}
       => cfg.shrinkage \in {1, 3}
  /\ (pc # "setup" /\ cfg.shrinkage <= 1) =>
       \A k \in Pairs : ctr.tau[k] = 1
  /\ cfg.shrinkage \in {0, 2} =>
       /\ \A e \in 1..MaxExp : ctr.muExp[e] = 1
       /\ \A p \in Exposures \X Exposures : ctr.muMix[p] = 1
  /\ cfg.interaction = 1 =>
       /\ \A i \in Exposures : ctr.muMix[<<i, i>>] = 1
       /\ \A a \in DrawsOf("muMix") :
            ctr.drawOrder[a].t # ctr.drawOrder[a].tree

\* The end of a run in shrinkage mode 2 and interaction mode 1: the scale
\* of the pair was redrawn in the last sweep, nu was, the exposure and
\* interaction scales were not.
C16_Witness ==
  /\ pc = "done" /\ ctr.b > 2
  /\ cfg.shrinkage = 2 /\ cfg.interaction = 1
  /\ DrawsOf("tau") # {} /\ DrawsOf("nu") # {}
  /\ ctr.tau[1] # 1 /\ ctr.muExp[1] = 1

\* Sweep b is past the warm-up: b > 1000 or b > burn / 2.
PastWarmup(b) == b > 1000 \/ 2 * b > cfg.burn

\* C17: the exposure-selection probabilities are redrawn at the end of
\* sweep b iff b > 1000 or b > burn / 2; in a sweep with b <= 1000 and
\* b <= burn / 2 they keep their value, so the exposure-switch draws of
\* such a sweep use the probabilities the run was configured with.
C17_SelectionProbabilitiesAfterWarmup ==
  /\ SweepEnded =>
       /\ DrawsOf("dirichlet") # {} <=> PastWarmup(ctr.b - 1)
       /\ ctr.expProb = IF PastWarmup(ctr.b - 1) THEN DrawnExpProb
                        ELSE InitExpProb
  /\ (pc \in {"tree1", "tree2", "finish", "est"} /\ ~PastWarmup(ctr.b)) =>
       ctr.expProb = InitExpProb
  /\ (pc \in {"tree2", "finish"} /\ ~PastWarmup(ctr.b)) =>
       (loc.step1 = 3 => loc.switchProb1 = InitExpProb)
  /\ (pc = "finish" /\ ~PastWarmup(ctr.b)) =>
       (loc.step2 = 3 => loc.switchProb2 = InitExpProb)

\* The sweep at half of the burn-in, with an exposure-switch draw for each
\* tree made from the configured probabilities.
C17_Witness ==
  /\ pc = "finish" /\ ctr.b = 2 /\ 2 * ctr.b = cfg.burn
  /\ loc.step1 = 3 /\ loc.step2 = 3
  /\ loc.switchProb2 = InitExpProb /\ InitExpProb # DrawnExpProb

\* The sum of an exposure-pair matrix.
RECURSIVE SumOver(_, _)
SumOver(M, S) ==
  IF S = {} THEN 0
  ELSE LET x == CHOOSE y \in S : TRUE IN M[x] + SumOver(M, S \ {x})

\* The terminal nodes of the committed trees of the first n pairs.
TerminalsOfPairs(n) ==
  SumSeq([k \in 1..n |-> Len(listTerminal(trees1[k]))
                           + Len(listTerminal(trees2[k]))])

\* The pairs among the first n whose interaction scale is nonzero.
PairsWithScale(n) ==
  {k \in 1..n :
     /\ PairedByMode(ctr.tree1Exp[k], ctr.tree2Exp[k])
     /\ AtLargerSmaller(ctr.muMix, ctr.tree1Exp[k], ctr.tree2Exp[k]) # 0}

\* C18: the per-sweep accumulators are zero at the start of a sweep and
\* filled once per tree pair: after the last pair of a sweep the usage
\* counts of the exposures sum to 2 x nTrees, their term counts to the
\* number of terminal nodes of all committed trees, and the usage counts
\* of the exposure pairs to the number of pairs with a nonzero final
\* interaction scale (after t pairs: the same over those t pairs).
C18_AccumulatorsCountEachPairOnce ==
  pc \in {"tree1", "tree2", "finish", "est"} =>
    /\ SumSeq(ctr.expCount) = 2 * t
    /\ SumSeq(ctr.totTermExp) = TerminalsOfPairs(t)
    /\ SumOver(ctr.mixCount, Exposures \X Exposures)
         = Cardinality(PairsWithScale(t))
    /\ pc = "est" => t = cfg.nTrees

\* The last pair of the second sweep is over: two pairs on one exposure
\* each, both counted in the pair counts.
C18_Witness ==
  /\ pc = "est" /\ ctr.b = 2 /\ cfg.nTrees = MaxTrees
  /\ \A k \in Pairs : ctr.tree1Exp[k] = ctr.tree2Exp[k]
  /\ SumOver(ctr.mixCount, Exposures \X Exposures) = MaxTrees
  /\ SumSeq(ctr.expCount) = 2 * MaxTrees

\* The design and the coefficient blocks of an evaluation mhr of terminal
\* nodes nodes1 and nodes2 under the interaction scale mixVar.
DesignLaidOut(mhr, nodes1, nodes2, mixVar) ==
  LET pX1 == Len(nodes1)
      pX2 == Len(nodes2)
      I1 == {i : i \in 0..(pX1 - 1)}
      I2 == {pX1 + j : j \in 0..(pX2 - 1)}
      IM == IF mixVar # 0
            THEN {pX1 + pX2 + p[1] * pX2 + p[2] :
                    p \in (0..(pX1 - 1)) \X (0..(pX2 - 1))}
            ELSE {}
  IN /\ mhr.pXd = pX1 + pX2 + (IF mixVar # 0 THEN pX1 * pX2 ELSE 0)
     /\ Len(mhr.Xd) = mhr.pXd
     /\ I1 \cup I2 \cup IM = 0..(mhr.pXd - 1)
     /\ Cardinality(I1) + Cardinality(I2) + Cardinality(IM) = mhr.pXd
     /\ \A i \in 0..(pX1 - 1) : mhr.Xd[i + 1] = <<nodes1[i + 1]>>
     /\ \A j \in 0..(pX2 - 1) : mhr.Xd[pX1 + j + 1] = <<nodes2[j + 1]>>
     /\ mixVar # 0 =>
          \A i \in 0..(pX1 - 1), j \in 0..(pX2 - 1) :
            mhr.Xd[pX1 + pX2 + i * pX2 + j + 1]
              = <<nodes1[i + 1], nodes2[j + 1]>>
     /\ {mhr.draw1[n] : n \in 1..Len(mhr.draw1)} = I1
     /\ {mhr.draw2[n] : n \in 1..Len(mhr.draw2)} = I2
     /\ {mhr.drawMix[n] : n \in 1..Len(mhr.drawMix)} = IM
     /\ mhr.draw1 \o mhr.draw2 \o mhr.drawMix = mhr.drawAll
     /\ mhr.nTerm1 = pX1 /\ mhr.nTerm2 = pX2

\* C19: the design of mixMHR has pX1 + pX2 columns when the interaction
\* scale is zero and pX1 + pX2 + pX1 * pX2 otherwise; the indices i,
\* pX1 + j and pX1 + pX2 + i * pX2 + j cover 0..pXd-1 exactly once and
\* hold the columns of tree 1, of tree 2 and of their products; draw1,
\* draw2 and drawMix are the matching disjoint slices of the drawn vector;
\* nTerm1 = pX1 and nTerm2 = pX2.
C19_DesignColumnsAndBlocks ==
  (pc \in {"tree2", "finish"} /\ loc.call) =>
    DesignLaidOut(loc.mhr0, loc.term1, loc.term2, loc.mixVar)

\* An evaluation of two and three terminal nodes with an interaction:
\* eleven columns.
C19_Witness ==
  /\ pc = "finish" /\ loc.call
  /\ loc.mhr0.nTerm1 = 2 /\ loc.mhr0.nTerm2 = 3 /\ loc.mixVar # 0
  /\ loc.mhr0.pXd = 11 /\ Len(loc.mhr0.drawMix) = 6

\* The exposure of a tree changes over its update only by an accepted
\* switch-exposure move, which changes it and keeps the terminal nodes'
\* number; was is the exposure and nTerm the number before the update.
ExposureMovesBySwitchOnly(was, now, step, success, nTerm, nTermNow) ==
  /\ now # was => (step = 3 /\ success = 2)
  /\ (step < 3 /\ success = 2) => now = was
  /\ (step = 3 /\ success = 2) => (now # was /\ nTermNow = nTerm)

\* The exposures of the trees after each update of a pair's step.
ExposuresAfterUpdates ==
  /\ (pc = "tree2" /\ loc.call) =>
       /\ ExposureMovesBySwitchOnly(ctr.tree1Exp[t + 1], loc.m1,
            loc.step1, loc.success1, loc.nTermDraw1, Len(loc.term1))
       /\ loc.m2 = ctr.tree2Exp[t + 1]
  /\ (pc = "finish" /\ loc.call) =>
       /\ ExposureMovesBySwitchOnly(ctr.tree1Exp[t + 1], loc.m1,
            loc.step1, loc.success1, loc.nTermDraw1, Len(loc.term1))
       /\ ExposureMovesBySwitchOnly(ctr.tree2Exp[t + 1], loc.m2,
            loc.step2, loc.success2, loc.nTermDraw2, Len(loc.term2))

\* The end of a pair's step stores the exposures of its two trees and no
\* other one; outside a pair's step no exposure changes.
ExposuresStored ==
  /\ pc = "finish" =>
       /\ ctr.tree1Exp' = [ctr.tree1Exp EXCEPT ![t + 1] = loc.m1]
       /\ ctr.tree2Exp' = [ctr.tree2Exp EXCEPT ![t + 1] = loc.m2]
  /\ pc \in {"sweep", "tree1", "tree2", "est", "done"} =>
       /\ ctr.tree1Exp' = ctr.tree1Exp
       /\ ctr.tree2Exp' = ctr.tree2Exp

\* C20: the exposure of a tree (tree1Exp(t), tree2Exp(t)) changes during a
\* pair's step only if the tree's move was switch-exposure and was
\* accepted, and it then differs from the old one; an accepted grow, prune
\* or change leaves the exposure, an accepted switch-exposure leaves the
\* number of terminal nodes.
C20_ExposureChangesOnlyByAcceptedSwitch ==
  [][ExposuresAfterUpdates' /\ ExposuresStored]_vars

\* A pair's step in which tree 1 grew to two terminal nodes and kept its
\* exposure and tree 2, of two terminal nodes, switched its exposure.
C20_Witness ==
  /\ pc = "finish" /\ loc.call
  /\ loc.step1 = 0 /\ loc.success1 = 2 /\ loc.m1 = ctr.tree1Exp[t + 1]
  /\ loc.step2 = 3 /\ loc.success2 = 2 /\ loc.m2 # ctr.tree2Exp[t + 1]
  /\ loc.nTermDraw2 = 2 /\ Len(loc.term2) = 2

\* The values a vector holds.
ValuesOf(s) == {s[k] : k \in 1..Len(s)}

\* C21: for sorted A (origVec) and B (newVec), every element of the
\* returned intersection occurs in both A and B and no element of the
\* returned difference occurs in B: the difference holds exactly the
\* values of A that are absent from B, also when A repeats values.
C21_DifferenceDisjointFromB ==
  CalledIad =>
    /\ ValuesOf(fnOut.out[1])
         \subseteq (ValuesOf(fnArgs.origVec) \cap ValuesOf(fnArgs.newVec))
    /\ ValuesOf(fnOut.out[2])
         = ValuesOf(fnArgs.origVec) \ ValuesOf(fnArgs.newVec)

\* The call on A = [2, 2] and B = [2]: the second 2 of A is copied into
\* the difference once B is exhausted.
C21_Witness ==
  /\ CalledIad
  /\ fnArgs.origVec = <<2, 2>>
  /\ fnArgs.newVec = <<2>>
  /\ fnOut.out = << <<2>>, <<2>> >>

\* The rows of the accept/reject trace.
TraceRows == {dgn.TreeAccept[n] : n \in 1..Len(dgn.TreeAccept)}

\* C22: with diagnostics on, every row of the accept/reject trace holds a
\* log acceptance ratio computed for the proposal of the row's own tree in
\* the step that wrote the row, never an unset value or the ratio of the
\* other tree, also when no move was proposed (success 0).
C22_TraceRatioIsTheRowsOwn ==
  cfg.diagnostics =>
    \A row \in TraceRows :
      row.ratio.kind = "ratio" /\ row.ratio.tree = row.tree

\* A step whose tree 1 proposed a switch of exposure and whose tree 2
\* proposed nothing: the row of tree 2 holds the ratio of tree 1.
C22_Witness ==
  /\ cfg.diagnostics
  /\ \E r1 \in TraceRows, r2 \in TraceRows :
       /\ r1.tree = 1 /\ r1.step = 3 /\ r1.success >= 1
       /\ r1.ratio = [kind |-> "ratio", tree |-> 1]
       /\ r2.tree = 2 /\ r2.success = 0
       /\ r2.ratio = r1.ratio
====
